---- MODULE Spec2Model ----
(***************************************************************************)
(* Model of codemap's file-selection engine: the .gitignore translator     *)
(* (utils/config.py), the glob matcher and the discovery walker            *)
(* (utils/file_utils.py).                                                  *)
(*                                                                         *)
(* A Python str is modelled as a sequence of one-character strings, so     *)
(* that splitting, stripping, prefix tests and fnmatch are computed        *)
(* character by character as the code computes them.                       *)
(***************************************************************************)
EXTENDS Integers, Sequences, FiniteSets, TLC

VARIABLES
    filepath,     \* matcher / should_exclude argument: the relative path
    pattern,      \* _match_glob_pattern argument: one glob pattern
    patterns,     \* should_exclude argument: the pattern list
    result,       \* <<>> before the operation returns, <<value>> once it has
    line,         \* _gitignore_to_glob argument: one raw ignore line
    tree,         \* walker: the entries under root, [path, is_file] records
    config,       \* walker: the Config passed to discover_files
    languages_arg, \* walker: the optional languages argument, <<>> for None
    extensions,   \* walker: the local computed before the loop (line 31)
    pending,      \* walker: entries rglob has not produced yet
    yielded,      \* walker: the paths yielded so far, in order
    rc_file,      \* the override file .codemaprc under root
    ignore_file,  \* the ignore file .gitignore under root
    heap,         \* the list objects alive: identity -> items
    calls,        \* load_config calls: position, locals and returned Config
    matcher,      \* _match_parts run step by step: arguments, call stack, outcome
    parser,       \* DartParser scan of a body: child nodes, locals, emitted symbols
    twin          \* a second discover_files walk over the same tree

loadVars == <<rc_file, ignore_file, heap, calls>>

runVars == <<matcher, parser, twin>>

vars == <<filepath, pattern, patterns, result, line, tree, config, languages_arg, extensions,
          pending, yielded, loadVars, runVars>>

(***************************************************************************)
(* Bounds of the input spaces.                                             *)
(***************************************************************************)
MaxPathParts == 3
MaxPatternParts == 3

(***************************************************************************)
(* str primitives                                                          *)
(***************************************************************************)
\* s[i:] for 0-based i (Python slice from i to the end)
SliceFrom(s, i) == SubSeq(s, i + 1, Len(s))

\* s.startswith(p)
StartsWith(s, p) == Len(p) <= Len(s) /\ SubSeq(s, 1, Len(p)) = p

\* s.endswith(p)
EndsWith(s, p) == Len(p) <= Len(s) /\ SubSeq(s, Len(s) - Len(p) + 1, Len(s)) = p

\* sub in s
Contains(s, sub) == \E i \in 0..(Len(s) - Len(sub)) : SubSeq(s, i + 1, i + Len(sub)) = sub

\* c in s, for one character c
HasChar(s, c) == \E i \in 1..Len(s) : s[i] = c

\* s.count(c), for one character c
Count(s, c) == Cardinality({i \in 1..Len(s) : s[i] = c})

\* s.replace(a, b), for single characters a and b
Replace(s, a, b) == [i \in 1..Len(s) |-> IF s[i] = a THEN b ELSE s[i]]

\* s.split("/"): always at least one part, empty parts kept
RECURSIVE SplitFrom(_, _, _)
SplitFrom(s, i, cur) ==
    IF i > Len(s) THEN <<cur>>
    ELSE IF s[i] = "/" THEN <<cur>> \o SplitFrom(s, i + 1, <<>>)
    ELSE SplitFrom(s, i + 1, Append(cur, s[i]))

Split(s) == SplitFrom(s, 1, <<>>)

\* "/".join(parts)
RECURSIVE Join(_)
Join(parts) ==
    IF Len(parts) = 0 THEN <<>>
    ELSE IF Len(parts) = 1 THEN parts[1]
    ELSE parts[1] \o <<"/">> \o Join(Tail(parts))

(***************************************************************************)
(* fnmatch.fnmatch(name, pat) on POSIX (normcase is the identity): the     *)
(* pattern is compiled to a regular expression matched against the whole   *)
(* name with DOTALL, `*` becoming `.*` and `?` becoming `.`; every other   *)
(* character of the alphabet used here matches itself.  Neither wildcard   *)
(* treats `/` specially.                                                   *)
(***************************************************************************)
RECURSIVE fnmatch(_, _)
fnmatch(name, pat) ==
    IF Len(pat) = 0 THEN Len(name) = 0
    ELSE IF pat[1] = "*" THEN
        \/ fnmatch(name, Tail(pat))
        \/ Len(name) > 0 /\ fnmatch(Tail(name), pat)
    ELSE IF pat[1] = "?" THEN
        Len(name) > 0 /\ fnmatch(Tail(name), Tail(pat))
    ELSE
        Len(name) > 0 /\ name[1] = pat[1] /\ fnmatch(Tail(name), Tail(pat))

(***************************************************************************)
(* file_utils.py: the glob matcher                                         *)
(***************************************************************************)
DoubleStar == <<"*", "*">>

\* _match_parts with a `**` that consumes exactly one path component
RECURSIVE match_parts_one_component(_, _)
match_parts_one_component(path_parts, pattern_parts) ==
    IF Len(pattern_parts) = 0 THEN Len(path_parts) = 0
    ELSE IF Len(path_parts) = 0 THEN
        \A i \in 1..Len(pattern_parts) : pattern_parts[i] = DoubleStar
    ELSE IF pattern_parts[1] = DoubleStar THEN
        match_parts_one_component(Tail(path_parts), Tail(pattern_parts))
    ELSE
        /\ fnmatch(path_parts[1], pattern_parts[1])
        /\ match_parts_one_component(Tail(path_parts), Tail(pattern_parts))

\* _match_parts with a `**` that consumes one or more path components
RECURSIVE match_parts_one_or_more(_, _)
match_parts_one_or_more(path_parts, pattern_parts) ==
    IF Len(pattern_parts) = 0 THEN Len(path_parts) = 0
    ELSE IF Len(path_parts) = 0 THEN
        \A i \in 1..Len(pattern_parts) : pattern_parts[i] = DoubleStar
    ELSE IF pattern_parts[1] = DoubleStar THEN
        \/ match_parts_one_or_more(Tail(path_parts), Tail(pattern_parts))
        \/ match_parts_one_or_more(Tail(path_parts), pattern_parts)
    ELSE
        /\ fnmatch(path_parts[1], pattern_parts[1])
        /\ match_parts_one_or_more(Tail(path_parts), Tail(pattern_parts))

RECURSIVE _match_parts(_, _)
_match_parts(path_parts, pattern_parts) ==
    IF Len(pattern_parts) = 0 THEN Len(path_parts) = 0
    ELSE IF Len(path_parts) = 0 THEN
        \A i \in 1..Len(pattern_parts) : pattern_parts[i] = DoubleStar
    ELSE IF pattern_parts[1] = DoubleStar THEN
        \/ _match_parts(path_parts, Tail(pattern_parts))
        \/ _match_parts(Tail(path_parts), pattern_parts)
    ELSE
        /\ fnmatch(path_parts[1], pattern_parts[1])
        /\ _match_parts(Tail(path_parts), Tail(pattern_parts))

_match_glob_pattern(path, pat) ==
    IF ~Contains(pat, DoubleStar) THEN fnmatch(path, pat)
    ELSE _match_parts(Split(path), Split(pat))

(***************************************************************************)
(* Inputs of the matcher: paths and patterns assembled from named parts.   *)
(***************************************************************************)
PathNames == {<<>>, <<"a">>, <<"b">>, <<"a", "b">>}
PatternNames == {DoubleStar, <<"*">>, <<"a">>, <<"?", "b">>}

SeqsUpTo(S, n) == UNION {[1..k -> S] : k \in 1..n}

Paths == {Join(p) : p \in SeqsUpTo(PathNames, MaxPathParts)}
Patterns == {Join(p) : p \in SeqsUpTo(PatternNames, MaxPatternParts)}

\* no load_config call, no file under root, no list object
\* no stepwise run of _match_parts, no Dart scan, no second walk
NoRun ==
    /\ matcher = <<>>
    /\ parser = <<>>
    /\ twin = <<>>

NoLoad ==
    /\ rc_file = <<>>
    /\ ignore_file = <<>>
    /\ heap = <<>>
    /\ calls = <<>>

Idle ==
    /\ NoLoad
    /\ NoRun
    /\ patterns = <<>>
    /\ line = <<>>
    /\ tree = {}
    /\ config = [languages |-> <<>>, exclude_patterns |-> <<>>]
    /\ languages_arg = <<>>
    /\ extensions = <<>>
    /\ pending = {}
    /\ yielded = <<>>

InitMatch ==
    /\ filepath \in Paths
    /\ pattern \in Patterns
    /\ result = <<>>
    /\ Idle

MatchGlobPattern ==
    /\ result = <<>>
    /\ result' = <<_match_glob_pattern(filepath, pattern)>>
    /\ UNCHANGED <<filepath, pattern, patterns, line, tree, config, languages_arg, extensions, pending, yielded, loadVars, runVars>>

NextMatch == MatchGlobPattern

SpecMatch == InitMatch /\ [][NextMatch]_vars

Returned == Len(result) = 1

(***************************************************************************)
(* Reference semantics of a pattern with `**` segments, computed forwards: *)
(* Covered(i) is the set of numbers k such that the first k path segments  *)
(* can be split, in order, among the first i pattern segments, a `**`      *)
(* covering zero or more whole segments and any other pattern segment      *)
(* glob-matching exactly one.                                              *)
(***************************************************************************)
RECURSIVE Covered(_, _, _)
Covered(path_parts, pattern_parts, i) ==
    IF i = 0 THEN {0}
    ELSE LET before == Covered(path_parts, pattern_parts, i - 1) IN
         IF pattern_parts[i] = DoubleStar
         THEN {k \in 0..Len(path_parts) : \E j \in before : j <= k}
         ELSE {k \in 1..Len(path_parts) :
                  k - 1 \in before /\ fnmatch(path_parts[k], pattern_parts[i])}

SegmentsSplit(path_parts, pattern_parts) ==
    Len(path_parts) \in Covered(path_parts, pattern_parts, Len(pattern_parts))

HasDoubleStarSegment(pat) == \E i \in 1..Len(Split(pat)) : Split(pat)[i] = DoubleStar

\* C1: for a pattern with a `**` segment the matcher returns true exactly when
\* the path segments can be split in order among the pattern segments, each `**`
\* covering zero or more whole segments and every other pattern segment
\* glob-matching exactly one path segment (so a leading `**/` also matches at
\* depth zero).
C1_DoubleStarZeroOrMore ==
    (Returned /\ HasDoubleStarSegment(pattern)) =>
        (result[1] <=> SegmentsSplit(Split(filepath), Split(pattern)))

\* a/b against **/a/** : the leading `**` covers no segment
C1_Witness ==
    /\ Returned
    /\ pattern = <<"*", "*", "/", "a", "/", "*", "*">>
    /\ filepath = <<"a", "/", "b">>
    /\ result[1] = TRUE

\* C2: for a pattern without `**` the whole-path fnmatch used by
\* _match_glob_pattern agrees with the segment-by-segment descent of
\* _match_parts, so `*` and `?` never match across a `/`.
C2_WholePathEqualsSegmentwise ==
    (Returned /\ ~Contains(pattern, DoubleStar)) =>
        (result[1] <=> _match_parts(Split(filepath), Split(pattern)))

\* C3: descendant closure: a path accepted by a pattern ending in `/**` is still
\* accepted after any further segment is appended to it.
C3_DescendantClosure ==
    (Returned /\ EndsWith(pattern, <<"/">> \o DoubleStar) /\ result[1]) =>
        \A s \in PathNames : _match_glob_pattern(filepath \o <<"/">> \o s, pattern)

\* a/b is accepted by a/** and so are its descendants
C3_Witness ==
    /\ Returned
    /\ pattern = <<"a", "/", "*", "*">>
    /\ filepath = <<"a", "/", "b">>
    /\ result[1] = TRUE
    /\ _match_glob_pattern(filepath \o <<"/", "a">>, pattern)

(***************************************************************************)
(* config.py: the default exclude list                                     *)
(***************************************************************************)
DEFAULT_EXCLUDE_PATTERNS == <<
    <<"*", "*", "/", "n", "o", "d", "e", "_", "m", "o", "d", "u", "l", "e", "s", "/", "*", "*">>,
    <<"*", "*", "/", "_", "_", "p", "y", "c", "a", "c", "h", "e", "_", "_", "/", "*", "*">>,
    <<"*", "*", "/", "v", "e", "n", "v", "/", "*", "*">>,
    <<"*", "*", "/", ".", "v", "e", "n", "v", "/", "*", "*">>,
    <<"*", "*", "/", "d", "i", "s", "t", "/", "*", "*">>,
    <<"*", "*", "/", "b", "u", "i", "l", "d", "/", "*", "*">>,
    <<"*", "*", "/", "*", ".", "m", "i", "n", ".", "j", "s">>,
    <<"*", "*", "/", "m", "i", "g", "r", "a", "t", "i", "o", "n", "s", "/", "*", "*">>,
    <<"*", "*", "/", ".", "g", "i", "t", "/", "*", "*">>,
    <<"*", "*", "/", ".", "t", "o", "x", "/", "*", "*">>,
    <<"*", "*", "/", ".", "e", "g", "g", "s", "/", "*", "*">>,
    <<"*", "*", "/", "*", ".", "e", "g", "g", "-", "i", "n", "f", "o", "/", "*", "*">>
>>

(***************************************************************************)
(* file_utils.py: should_exclude.  The optional argument is <<>> for None  *)
(* and <<list>> for a list.                                                *)
(***************************************************************************)
\* the loop of should_exclude returning the verdict of the first pattern
exclude_loop_first_only(path, pats, i) ==
    IF i > Len(pats) THEN FALSE
    ELSE _match_glob_pattern(path, Replace(pats[i], "\\", "/"))

RECURSIVE exclude_loop(_, _, _)
exclude_loop(path, pats, i) ==
    IF i > Len(pats) THEN FALSE
    ELSE IF _match_glob_pattern(path, Replace(pats[i], "\\", "/")) THEN TRUE
    ELSE exclude_loop(path, pats, i + 1)

should_exclude(path, opt_patterns) ==
    LET pats == IF opt_patterns = <<>> THEN DEFAULT_EXCLUDE_PATTERNS ELSE opt_patterns[1]
    IN  exclude_loop(Replace(path, "\\", "/"), pats, 1)

(***************************************************************************)
(* Inputs of should_exclude                                                *)
(***************************************************************************)
MaxPatterns == 2

ExcludePaths ==
    {Join(p) : p \in SeqsUpTo(PathNames, 2)} \cup
    { <<"a", "\\", "b">>,
      <<"b", "\\", "a", "\\", "b">>,
      <<"v", "e", "n", "v", "/", "a">>,
      <<"a", "\\", "v", "e", "n", "v", "\\", "b">>,
      <<"a", "/", "b", ".", "m", "i", "n", ".", "j", "s">> }

ExcludePatternPool ==
    { <<"*", "*", "/", "a", "/", "*", "*">>,
      <<"*", "b">>,
      <<"a", "\\", "*", "*">>,
      <<"b">>,
      <<"*", "*", "\\", "b">> }

PatternLists == {<<>>} \cup SeqsUpTo(ExcludePatternPool, MaxPatterns)

InitExclude ==
    /\ NoLoad
    /\ NoRun
    /\ filepath \in ExcludePaths
    /\ patterns \in {<<>>} \cup {<<l>> : l \in PatternLists}
    /\ result = <<>>
    /\ pattern = <<>>
    /\ line = <<>>
    /\ tree = {}
    /\ config = [languages |-> <<>>, exclude_patterns |-> <<>>]
    /\ languages_arg = <<>>
    /\ extensions = <<>>
    /\ pending = {}
    /\ yielded = <<>>

ShouldExclude ==
    /\ result = <<>>
    /\ result' = <<should_exclude(filepath, patterns)>>
    /\ UNCHANGED <<filepath, pattern, patterns, line, tree, config, languages_arg, extensions, pending, yielded, loadVars, runVars>>

NextExclude == ShouldExclude

SpecExclude == InitExclude /\ [][NextExclude]_vars

Normalized(s) == Replace(s, "\\", "/")

Reordered(l, q) == [i \in 1..Len(l) |-> l[q[i]]]

\* C4: should_exclude of a path and a pattern list is true exactly when some
\* pattern of the list matches the path (both with `\` replaced by `/`); every
\* reordering of the list gives the same result, and the empty list gives false.
C4_ExcludedIffAnyPatternMatches ==
    (Returned /\ Len(patterns) = 1) =>
        LET l == patterns[1] IN
        /\ result[1] <=>
              \E i \in 1..Len(l) : _match_glob_pattern(Normalized(filepath), Normalized(l[i]))
        /\ \A q \in Permutations(1..Len(l)) :
              should_exclude(filepath, <<Reordered(l, q)>>) = result[1]
        /\ (l = <<>>) => (result[1] = FALSE)

\* a\b is excluded by the list [b, **\b] through its second pattern only
C4_Witness ==
    /\ Returned
    /\ filepath = <<"a", "\\", "b">>
    /\ patterns = << << <<"b">>, <<"*", "*", "\\", "b">> >> >>
    /\ result[1] = TRUE

(***************************************************************************)
(* config.py: the ignore-line translator                                   *)
(***************************************************************************)
Whitespace == {" ", "\t", "\n", "\r"}

\* s.rstrip(): trailing whitespace removed
RECURSIVE RStrip(_)
RStrip(s) ==
    IF Len(s) > 0 /\ s[Len(s)] \in Whitespace THEN RStrip(SubSeq(s, 1, Len(s) - 1)) ELSE s

\* s.strip(): leading and trailing whitespace removed
RECURSIVE LStrip(_)
LStrip(s) == IF Len(s) > 0 /\ s[1] \in Whitespace THEN LStrip(Tail(s)) ELSE s

Strip(s) == LStrip(RStrip(s))

\* s.rstrip("/"): every trailing `/` removed
RECURSIVE RStripSlash(_)
RStripSlash(s) ==
    IF Len(s) > 0 /\ s[Len(s)] = "/" THEN RStripSlash(SubSeq(s, 1, Len(s) - 1)) ELSE s

\* hidden_files of _gitignore_to_glob
hidden_files ==
    { <<".", "e", "n", "v">>,
      <<".", "g", "i", "t", "i", "g", "n", "o", "r", "e">>,
      <<".", "g", "i", "t", "a", "t", "t", "r", "i", "b", "u", "t", "e", "s">>,
      <<".", "e", "d", "i", "t", "o", "r", "c", "o", "n", "f", "i", "g">>,
      <<".", "p", "r", "e", "t", "t", "i", "e", "r", "r", "c">>,
      <<".", "e", "s", "l", "i", "n", "t", "r", "c">>,
      <<".", "n", "p", "m", "r", "c">>, <<".", "n", "v", "m", "r", "c">>,
      <<".", "d", "o", "c", "k", "e", "r", "i", "g", "n", "o", "r", "e">>,
      <<".", "p", "y", "t", "h", "o", "n", "-", "v", "e", "r", "s", "i", "o", "n">>,
      <<".", "r", "u", "b", "y", "-", "v", "e", "r", "s", "i", "o", "n">>,
      <<".", "n", "o", "d", "e", "-", "v", "e", "r", "s", "i", "o", "n">> }

\* hidden_files of _looks_like_directory
looks_like_directory_hidden_files ==
    { <<".", "e", "n", "v">>,
      <<".", "g", "i", "t", "i", "g", "n", "o", "r", "e">>,
      <<".", "g", "i", "t", "a", "t", "t", "r", "i", "b", "u", "t", "e", "s">>,
      <<".", "e", "d", "i", "t", "o", "r", "c", "o", "n", "f", "i", "g">>,
      <<".", "p", "r", "e", "t", "t", "i", "e", "r", "r", "c">>,
      <<".", "e", "s", "l", "i", "n", "t", "r", "c">>,
      <<".", "n", "p", "m", "r", "c">>, <<".", "n", "v", "m", "r", "c">>,
      <<".", "d", "o", "c", "k", "e", "r", "i", "g", "n", "o", "r", "e">> }

\* hidden_dirs of _looks_like_directory
hidden_dirs ==
    { <<".", "v", "e", "n", "v">>, <<".", "g", "i", "t">>,
      <<".", "s", "v", "n">>, <<".", "h", "g">>, <<".", "t", "o", "x">>,
      <<".", "n", "o", "x">>,
      <<".", "m", "y", "p", "y", "_", "c", "a", "c", "h", "e">>,
      <<".", "p", "y", "t", "e", "s", "t", "_", "c", "a", "c", "h", "e">>,
      <<".", "e", "g", "g", "s">>, <<".", "c", "a", "c", "h", "e">>,
      <<".", "n", "p", "m">>, <<".", "y", "a", "r", "n">> }

_looks_like_directory(pat) ==
    LET parts == Split(RStripSlash(pat))
        last_part == parts[Len(parts)]
    IN  IF HasChar(last_part, "*") THEN FALSE
        ELSE IF last_part \in looks_like_directory_hidden_files THEN FALSE
        ELSE IF last_part \in hidden_dirs THEN TRUE
        ELSE IF StartsWith(last_part, <<".">>) /\ Count(last_part, ".") = 1 THEN TRUE
        ELSE IF ~HasChar(last_part, ".") THEN TRUE
        ELSE FALSE

\* lines 172-190: the text holds no `/`
single_segment_glob(text) ==
    IF text \in hidden_files THEN DoubleStar \o <<"/">> \o text
    ELSE LET has_extension == HasChar(text, ".") /\ ~StartsWith(text, <<".">>)
             has_wildcard == HasChar(text, "*")
         IN  IF has_wildcard \/ has_extension
             THEN DoubleStar \o <<"/">> \o text
             ELSE DoubleStar \o <<"/">> \o text \o <<"/">> \o DoubleStar

\* lines 194-197 as literal gitignore anchoring would have them: a
\* root-relative pattern gets no `**/` prefix
add_prefix_anchored(text, is_root_relative) ==
    IF ~is_root_relative /\ ~StartsWith(text, DoubleStar \o <<"/">>)
    THEN DoubleStar \o <<"/">> \o text
    ELSE text

\* lines 194-197: the `**/` prefix of a path pattern
add_prefix(text, is_root_relative) ==
    IF ~is_root_relative /\ ~StartsWith(text, DoubleStar \o <<"/">>)
    THEN DoubleStar \o <<"/">> \o text
    ELSE IF is_root_relative THEN DoubleStar \o <<"/">> \o text
    ELSE text

\* lines 200-204: the `/**` suffix of a path pattern
add_suffix(pat, is_dir_pattern) ==
    IF is_dir_pattern \/ _looks_like_directory(pat)
    THEN IF ~EndsWith(pat, <<"/">> \o DoubleStar) THEN pat \o <<"/">> \o DoubleStar ELSE pat
    ELSE pat

_gitignore_to_glob(raw) ==
    LET stripped == RStrip(raw)
        is_dir_pattern == EndsWith(stripped, <<"/">>)
        undirected == IF is_dir_pattern THEN SubSeq(stripped, 1, Len(stripped) - 1)
                      ELSE stripped
        is_root_relative == StartsWith(undirected, <<"/">>)
        text == IF is_root_relative THEN SliceFrom(undirected, 1) ELSE undirected
    IN  IF ~HasChar(text, "/") THEN single_segment_glob(text)
        ELSE add_suffix(add_prefix(text, is_root_relative), is_dir_pattern)

(***************************************************************************)
(* Inputs of the translator: raw lines assembled from a lead, one or more  *)
(* named segments joined by `/`, and a trail.                              *)
(***************************************************************************)
MaxLineParts == 2

LineNames ==
    { <<>>, <<"l", "o", "g", "s">>, <<".", "e", "n", "v">>,
      <<".", "p", "y", "t", "h", "o", "n", "-", "v", "e", "r", "s", "i", "o", "n">>,
      <<".", "g", "i", "t">>, <<"*", ".", "c">>, <<"a", ".", "c">>, <<".", "x">>,
      <<".", "a", ".", "b">>, <<"f", "?">>, <<"*", "*">> }
LineLeads == {<<>>, <<"/">>, <<"#">>, <<"!">>, <<" ">>}
LineTrails == {<<>>, <<"/">>, <<" ">>, <<"/", " ">>}

Lines ==
    {lead \o Join(p) \o trail :
        lead \in LineLeads, p \in SeqsUpTo(LineNames, MaxLineParts), trail \in LineTrails}

InitTranslate ==
    /\ NoLoad
    /\ NoRun
    /\ line \in Lines
    /\ result = <<>>
    /\ filepath = <<>>
    /\ pattern = <<>>
    /\ patterns = <<>>
    /\ tree = {}
    /\ config = [languages |-> <<>>, exclude_patterns |-> <<>>]
    /\ languages_arg = <<>>
    /\ extensions = <<>>
    /\ pending = {}
    /\ yielded = <<>>

GitignoreToGlob ==
    /\ result = <<>>
    /\ result' = <<_gitignore_to_glob(line)>>
    /\ UNCHANGED <<filepath, pattern, patterns, line, tree, config, languages_arg, extensions, pending, yielded, loadVars, runVars>>

NextTranslate == GitignoreToGlob

SpecTranslate == InitTranslate /\ [][NextTranslate]_vars

(***************************************************************************)
(* Vocabulary of the translation properties                                   *)
(***************************************************************************)
\* the line ended in `/` once its trailing whitespace is gone
EndedInSlash(raw) == EndsWith(RStrip(raw), <<"/">>)

WithoutTrailingSlash(raw) ==
    IF EndedInSlash(raw) THEN SubSeq(RStrip(raw), 1, Len(RStrip(raw)) - 1) ELSE RStrip(raw)

\* the line is root-relative: it starts with `/` once the trailing slash is gone
RootRelative(raw) == StartsWith(WithoutTrailingSlash(raw), <<"/">>)

\* the text left after stripping trailing whitespace, one trailing `/` and one
\* leading `/`
TextOf(raw) ==
    IF RootRelative(raw) THEN Tail(WithoutTrailingSlash(raw)) ELSE WithoutTrailingSlash(raw)

FinalSegment(text) == Split(text)[Len(Split(text))]

\* a raw ignore line: not empty, not a comment, not a negation
RawIgnoreLine(raw) ==
    /\ RStrip(raw) # <<>>
    /\ ~StartsWith(raw, <<"#">>)
    /\ ~StartsWith(raw, <<"!">>)

\* the glob wildcard characters of a segment
WildcardChars == {"*", "?"}
HasWildcard(s) == \E i \in 1..Len(s) : s[i] \in WildcardChars

\* C6: a line whose stripped text has no `/` and is no hidden-file name is
\* translated to **/<text> when the text holds a wildcard (`*` or `?`) or a `.`
\* at any position but the first, and to **/<text>/** otherwise.
C6_SingleSegmentTranslation ==
    (/\ Returned
     /\ RawIgnoreLine(line)
     /\ ~HasChar(TextOf(line), "/")
     /\ TextOf(line) \notin hidden_files) =>
        LET text == TextOf(line)
            file_like == HasWildcard(text) \/ \E i \in 2..Len(text) : text[i] = "."
        IN  result[1] = IF file_like THEN DoubleStar \o <<"/">> \o text
                        ELSE DoubleStar \o <<"/">> \o text \o <<"/">> \o DoubleStar

\* C7: a multi-segment line without trailing slash whose final segment is a name
\* of the single-segment hidden-file allow-list is file-like: its translation
\* gets no trailing /**.
C7_HiddenFileListsAgree ==
    (/\ Returned
     /\ RawIgnoreLine(line)
     /\ ~EndedInSlash(line)
     /\ HasChar(TextOf(line), "/")
     /\ FinalSegment(TextOf(line)) \in hidden_files
     /\ single_segment_glob(FinalSegment(TextOf(line)))
            = DoubleStar \o <<"/">> \o FinalSegment(TextOf(line))) =>
        ~EndsWith(result[1], <<"/">> \o DoubleStar)

\* the final segment is directory-like
DirectoryLike(seg) ==
    /\ ~HasWildcard(seg)
    /\ \/ seg \in hidden_dirs
       \/ StartsWith(seg, <<".">>) /\ Count(seg, ".") = 1
       \/ ~HasChar(seg, ".")

\* C8: a line whose stripped text still holds a `/` and whose final segment is
\* no hidden-file name is translated to the text prefixed with **/ (the prefix
\* left out only when the line is not root-relative and the text already begins
\* with **/), with /** appended, unless already there, exactly when the line
\* ended in `/` or its final segment is directory-like.
C8_PathPatternTranslation ==
    (/\ Returned
     /\ RawIgnoreLine(line)
     /\ HasChar(TextOf(line), "/")
     /\ FinalSegment(TextOf(line)) \notin hidden_files) =>
        LET text == TextOf(line)
            prefixed == IF ~RootRelative(line) /\ StartsWith(text, DoubleStar \o <<"/">>)
                        THEN text ELSE DoubleStar \o <<"/">> \o text
            suffixed == /\ ~EndsWith(prefixed, <<"/">> \o DoubleStar)
                        /\ EndedInSlash(line) \/ DirectoryLike(FinalSegment(text))
        IN  result[1] = IF suffixed THEN prefixed \o <<"/">> \o DoubleStar ELSE prefixed

(***************************************************************************)
(* Paths the translated patterns are compared on.                          *)
(***************************************************************************)
TranslatedPathNames == { <<"l", "o", "g", "s">>, <<".", "e", "n", "v">>, <<"a", ".", "c">>, <<"x">> }
TranslatedPaths == {Join(p) : p \in SeqsUpTo(TranslatedPathNames, MaxPathParts)}

SameMatches(p, q) ==
    p = q \/ \A path \in TranslatedPaths :
                 _match_glob_pattern(path, p) <=> _match_glob_pattern(path, q)

C10_TranslatorRejectsNonRules ==
    (Returned /\ (line = <<>> \/ StartsWith(line, <<"#">>) \/ StartsWith(line, <<"!">>))) =>
        result[1] = <<>>

(***************************************************************************)
(* file_utils.py: the extension registry and the discovery walker          *)
(***************************************************************************)
UpperCase == <<"A", "B", "C", "D", "E", "F", "G", "H", "I", "J", "K", "L", "M", "N", "O", "P"
               , "Q", "R", "S", "T", "U", "V", "W", "X", "Y", "Z">>
LowerCase == <<"a", "b", "c", "d", "e", "f", "g", "h", "i", "j", "k", "l", "m", "n", "o", "p"
               , "q", "r", "s", "t", "u", "v", "w", "x", "y", "z">>

\* s.lower() on ASCII text
Lower(s) ==
    [i \in 1..Len(s) |->
        IF \E k \in 1..26 : UpperCase[k] = s[i]
        THEN LowerCase[CHOOSE k \in 1..26 : UpperCase[k] = s[i]]
        ELSE s[i]]

\* extension_map of _get_extensions_for_languages, as <<language, extensions>> pairs
extension_map ==
    { <<<<"p", "y", "t", "h", "o", "n">>,
        <<<<".", "p", "y">>, <<".", "p", "y", "i">>>>>>,
      <<<<"t", "y", "p", "e", "s", "c", "r", "i", "p", "t">>,
        <<<<".", "t", "s">>, <<".", "t", "s", "x">>>>>>,
      <<<<"j", "a", "v", "a", "s", "c", "r", "i", "p", "t">>,
        <<<<".", "j", "s">>, <<".", "j", "s", "x">>>>>>,
      <<<<"m", "a", "r", "k", "d", "o", "w", "n">>,
        <<<<".", "m", "d">>, <<".", "m", "a", "r", "k", "d", "o", "w", "n">>>>>>,
      <<<<"y", "a", "m", "l">>,
        <<<<".", "y", "a", "m", "l">>, <<".", "y", "m", "l">>>>>>,
      <<<<"k", "o", "t", "l", "i", "n">>,
        <<<<".", "k", "t">>, <<".", "k", "t", "s">>>>>>,
      <<<<"s", "w", "i", "f", "t">>,
        <<<<".", "s", "w", "i", "f", "t">>>>>>,
      <<<<"c">>,
        <<<<".", "c">>, <<".", "h">>>>>>,
      <<<<"c", "p", "p">>,
        <<<<".", "c", "p", "p">>, <<".", "h", "p", "p">>, <<".", "c", "c">>, <<".", "h", "h">>, <<".", "c", "x", "x">>, <<".", "h", "x", "x">>>>>>,
      <<<<"h", "t", "m", "l">>,
        <<<<".", "h", "t", "m", "l">>, <<".", "h", "t", "m">>>>>>,
      <<<<"c", "s", "s">>,
        <<<<".", "c", "s", "s">>>>>>,
      <<<<"p", "h", "p">>,
        <<<<".", "p", "h", "p">>, <<".", "p", "h", "t", "m", "l">>>>>> }

RECURSIVE _get_extensions_for_languages(_)
_get_extensions_for_languages(languages) ==
    IF languages = <<>> THEN <<>>
    ELSE LET lang_lower == Lower(Head(languages))
             found == {e \in extension_map : e[1] = lang_lower}
         IN  (IF found = {} THEN <<>> ELSE (CHOOSE e \in found : TRUE)[2])
                 \o _get_extensions_for_languages(Tail(languages))

\* PurePath.name: the final component of a relative path
Name(path) == Split(path)[Len(Split(path))]

\* the index of the last `.` of a name, 0 when there is none (str.rfind + 1)
LastDot(name) ==
    IF HasChar(name, ".") THEN CHOOSE i \in 1..Len(name) :
                                   name[i] = "." /\ \A j \in (i + 1)..Len(name) : name[j] # "."
    ELSE 0

\* PurePath.suffix: from the last `.` of the name, unless that `.` is the first
\* or the last character of the name
Suffix(path) ==
    LET name == Name(path)
        i == LastDot(name)
    IN  IF 1 < i /\ i < Len(name) THEN SubSeq(name, i, Len(name)) ELSE <<>>

\* languages or config.languages: None and [] both fall back to the Config
effective_languages(opt_languages, cfg) ==
    IF opt_languages = <<>> \/ opt_languages[1] = <<>> THEN cfg.languages
    ELSE opt_languages[1]

\* line 38 written with str.endswith on the name instead of PurePath.suffix
has_extension_endswith(path, exts) ==
    \E i \in 1..Len(exts) : EndsWith(Name(path), exts[i])

\* line 38: any(path.suffix == ext for ext in extensions)
has_extension(path, exts) ==
    \E i \in 1..Len(exts) : Suffix(path) = exts[i]

\* Config.languages default (config.py line 60)
DEFAULT_LANGUAGES == <<
    <<"p", "y", "t", "h", "o", "n">>,
    <<"t", "y", "p", "e", "s", "c", "r", "i", "p", "t">>,
    <<"j", "a", "v", "a", "s", "c", "r", "i", "p", "t">>,
    <<"m", "a", "r", "k", "d", "o", "w", "n">>,
    <<"y", "a", "m", "l">>,
    <<"k", "o", "t", "l", "i", "n">>,
    <<"s", "w", "i", "f", "t">>,
    <<"c">>,
    <<"c", "p", "p">>,
    <<"h", "t", "m", "l">>,
    <<"c", "s", "s">>,
    <<"p", "h", "p">>
>>

(***************************************************************************)
(* Inputs of the walker: a tree under root, a Config, the languages        *)
(* argument.  A tree holds up to MaxFiles entries of the universe and the  *)
(* directories above them.                                                 *)
(***************************************************************************)
MaxFiles == 3

File(path) == [path |-> path, is_file |-> TRUE]
Dir(path) == [path |-> path, is_file |-> FALSE]

EntryUniverse ==
    { File(<<"a", "/", "a", "p", "p", ".", "p", "y">>),
      File(<<"a", "/", ".", "v", "e", "n", "v", "/", "l", "i", "b", ".", "p", "y">>),
      File(<<"a", "/", "b", "u", "i", "l", "d", "/", "o", "u", "t", ".", "j", "s">>),
      File(<<"a", "p", "p", ".", "p", "y">>),
      File(<<"a", "/", "x", ".", "P", "Y">>),
      File(<<"a", "/", "l", "i", "b", ".", "p", "y", "i">>),
      File(<<"a", "/", ".", "p", "y">>),
      Dir(<<"d", ".", "p", "y">>) }

ParentDirs(path) ==
    {Dir(Join(SubSeq(Split(path), 1, k))) : k \in 1..(Len(Split(path)) - 1)}

Trees ==
    {sel \cup UNION {ParentDirs(e.path) : e \in sel} :
        sel \in {t \in SUBSET EntryUniverse : Cardinality(t) <= MaxFiles}}

Python == <<"p", "y", "t", "h", "o", "n">>
JavaScript == <<"j", "a", "v", "a", "s", "c", "r", "i", "p", "t">>

Configs ==
    { [languages |-> <<Python>>, exclude_patterns |-> DEFAULT_EXCLUDE_PATTERNS],
      [languages |-> <<<<"P", "y", "t", "h", "o", "n">>, JavaScript>>,
       exclude_patterns |-> <<<<"*", ".", "p", "y">>, <<"a", "\\", "b", "u", "i", "l", "d", "\\", "*", "*">>>>],
      [languages |-> DEFAULT_LANGUAGES, exclude_patterns |-> DEFAULT_EXCLUDE_PATTERNS] }

Init ==
    /\ NoLoad
    /\ NoRun
    /\ tree \in Trees
    /\ config \in Configs
    /\ languages_arg \in {<<>>, <<<<JavaScript>>>>}
    /\ extensions = _get_extensions_for_languages(effective_languages(languages_arg, config))
    /\ pending = tree
    /\ yielded = <<>>
    /\ filepath = <<>>
    /\ pattern = <<>>
    /\ patterns = <<>>
    /\ result = <<>>
    /\ line = <<>>

\* One iteration of `for path in root.rglob("*")` on an entry rglob has not
\* produced yet (rglob's order is the directory order of the file system).  An
\* entry produced by root.rglob is under root, so relative_to never raises;
\* entry.path is the root-relative path, str(rel_path).
Consume(entry) ==
    /\ pending' = pending \ {entry}
    /\ UNCHANGED <<filepath, pattern, patterns, result, line, tree, config, languages_arg, extensions, loadVars, runVars>>

\* line 34: not path.is_file()
SkipNotFile ==
    \E entry \in pending :
        /\ ~entry.is_file
        /\ Consume(entry)
        /\ UNCHANGED yielded

\* line 38: no extension of the languages is the suffix
SkipExtension ==
    \E entry \in pending :
        /\ entry.is_file
        /\ ~has_extension(entry.path, extensions)
        /\ Consume(entry)
        /\ UNCHANGED yielded

\* line 50: the relative path is excluded
SkipExcluded ==
    \E entry \in pending :
        /\ entry.is_file
        /\ has_extension(entry.path, extensions)
        /\ should_exclude(entry.path, <<config.exclude_patterns>>)
        /\ Consume(entry)
        /\ UNCHANGED yielded

\* line 53
Yield ==
    \E entry \in pending :
        /\ entry.is_file
        /\ has_extension(entry.path, extensions)
        /\ ~should_exclude(entry.path, <<config.exclude_patterns>>)
        /\ Consume(entry)
        /\ yielded' = Append(yielded, entry.path)

Next == SkipNotFile \/ SkipExtension \/ SkipExcluded \/ Yield

Spec == Init /\ [][Next]_vars

(***************************************************************************)
(* What discovery should yield                                             *)
(***************************************************************************)
\* the suffixes that belong to a language of the list
LanguageSuffixes(langs) ==
    UNION {{m[2][i] : i \in 1..Len(m[2])} :
              m \in {e \in extension_map : \E k \in 1..Len(langs) : Lower(langs[k]) = e[1]}}

\* a regular file whose suffix belongs to a language of the Config and whose
\* relative path matches no exclude pattern
Selected(f) ==
    /\ f.is_file
    /\ Suffix(f.path) \in LanguageSuffixes(config.languages)
    /\ \A i \in 1..Len(config.exclude_patterns) :
           ~_match_glob_pattern(Normalized(f.path), Normalized(config.exclude_patterns[i]))

Expected == {f.path : f \in {e \in tree : Selected(e)}}

Yielded == {yielded[i] : i \in 1..Len(yielded)}

ExampleTree ==
    { File(<<"a", "/", "a", "p", "p", ".", "p", "y">>),
      File(<<"a", "/", ".", "v", "e", "n", "v", "/", "l", "i", "b", ".", "p", "y">>),
      File(<<"a", "/", "b", "u", "i", "l", "d", "/", "o", "u", "t", ".", "j", "s">>),
      Dir(<<"a">>),
      Dir(<<"a", "/", ".", "v", "e", "n", "v">>),
      Dir(<<"a", "/", "b", "u", "i", "l", "d">>) }

\* C5: discover_files called without a languages argument yields, each exactly
\* once, precisely the regular files under root whose suffix belongs to a
\* language of config.languages and whose relative path matches no pattern of
\* config.exclude_patterns; for a/app.py, a/.venv/lib.py, a/build/out.js with
\* languages [python] and the default excludes it yields exactly a/app.py.
C5_DiscoverYieldsExactlyTheSelectedFiles ==
    (languages_arg = <<>>) =>
        /\ Cardinality(Yielded) = Len(yielded)
        /\ \A i \in 1..Len(yielded) : File(yielded[i]) \in tree /\ Selected(File(yielded[i]))
        /\ (pending = {}) => (Yielded = Expected)
        /\ (/\ pending = {}
            /\ tree = ExampleTree
            /\ config = [languages |-> <<Python>>,
                         exclude_patterns |-> DEFAULT_EXCLUDE_PATTERNS]) =>
               (yielded = <<<<"a", "/", "a", "p", "p", ".", "p", "y">>>>)

\* the walk of the example tree has ended, having yielded a/app.py only
C5_Witness ==
    /\ languages_arg = <<>>
    /\ pending = {}
    /\ tree = ExampleTree
    /\ config = [languages |-> <<Python>>, exclude_patterns |-> DEFAULT_EXCLUDE_PATTERNS]
    /\ yielded = <<<<"a", "/", "a", "p", "p", ".", "p", "y">>>>

(***************************************************************************)
(* Properties of the patterns the translator produces                      *)
(***************************************************************************)
NoEmptySegment(pat) == \A i \in 1..Len(Split(pat)) : Split(pat)[i] # <<>>

\* C11: every pattern the translator produces for a non-empty, non-comment,
\* non-negated line (the lines `/`, `//` and lines holding `//` included) has no
\* empty segment: no leading `/`, no trailing `/` and no `//`.
C11_NoEmptySegment ==
    (Returned /\ RawIgnoreLine(line)) =>
        /\ NoEmptySegment(result[1])
        /\ ~StartsWith(result[1], <<"/">>)
        /\ ~EndsWith(result[1], <<"/">>)
        /\ ~Contains(result[1], <<"/", "/">>)

(***************************************************************************)
(* config.py: the Config object, the override file and the ignore file       *)
(***************************************************************************)
DEFAULT_INCLUDE_PATTERNS == <<
    <<"*", "*", "/", "*", ".", "p", "y">>,
    <<"*", "*", "/", "*", ".", "t", "s">>,
    <<"*", "*", "/", "*", ".", "t", "s", "x">>,
    <<"*", "*", "/", "*", ".", "j", "s">>,
    <<"*", "*", "/", "*", ".", "j", "s", "x">>,
    <<"*", "*", "/", "*", ".", "m", "d">>,
    <<"*", "*", "/", "*", ".", "y", "a", "m", "l">>,
    <<"*", "*", "/", "*", ".", "y", "m", "l">>,
    <<"*", "*", "/", "*", ".", "k", "t">>,
    <<"*", "*", "/", "*", ".", "k", "t", "s">>,
    <<"*", "*", "/", "*", ".", "s", "w", "i", "f", "t">>,
    <<"*", "*", "/", "*", ".", "c">>,
    <<"*", "*", "/", "*", ".", "h">>,
    <<"*", "*", "/", "*", ".", "c", "p", "p">>,
    <<"*", "*", "/", "*", ".", "h", "p", "p">>,
    <<"*", "*", "/", "*", ".", "c", "c">>,
    <<"*", "*", "/", "*", ".", "h", "h">>,
    <<"*", "*", "/", "*", ".", "c", "x", "x">>,
    <<"*", "*", "/", "*", ".", "h", "x", "x">>,
    <<"*", "*", "/", "*", ".", "h", "t", "m", "l">>,
    <<"*", "*", "/", "*", ".", "h", "t", "m">>,
    <<"*", "*", "/", "*", ".", "c", "s", "s">>,
    <<"*", "*", "/", "*", ".", "p", "h", "p">>,
    <<"*", "*", "/", "*", ".", "p", "h", "t", "m", "l">>
>>

\* the languages _load_yaml_config and from_dict fall back to
YAML_DEFAULT_LANGUAGES == <<
    <<"p", "y", "t", "h", "o", "n">>,
    <<"t", "y", "p", "e", "s", "c", "r", "i", "p", "t">>,
    <<"j", "a", "v", "a", "s", "c", "r", "i", "p", "t">>
>>

DEFAULT_MAX_DOCSTRING_LENGTH == 150

DEFAULT_OUTPUT == <<".", "c", "o", "d", "e", "m", "a", "p", ".", "j", "s", "o", "n">>

\* A value is a record of one shape: t is its Python type, and the field
\* that carries it is items (a list held by value, in a document), ref (a list
\* held by identity, in a Config), text (a str) or n (an int).
Value(t, items, ref, text, n) == [t |-> t, items |-> items, ref |-> ref, text |-> text, n |-> n]

Absent == Value("absent", <<>>, <<>>, <<>>, 0)
NoneValue == Value("null", <<>>, <<>>, <<>>, 0)
ListValue(items) == Value("list", items, <<>>, <<>>, 0)
ListRef(ref) == Value("list", <<>>, ref, <<>>, 0)
StrValue(text) == Value("str", <<>>, <<>>, text, 0)
IntValue(n) == Value("int", <<>>, <<>>, <<>>, n)

\* identities of the two module-level lists
GlobalExclude == <<"config", "DEFAULT_EXCLUDE_PATTERNS">>
GlobalInclude == <<"config", "DEFAULT_INCLUDE_PATTERNS">>

\* the list objects that exist once the module is imported
ModuleHeap ==
    (GlobalExclude :> DEFAULT_EXCLUDE_PATTERNS) @@ (GlobalInclude :> DEFAULT_INCLUDE_PATTERNS)

ListFields == {"languages", "exclude_patterns", "include_patterns"}

\* a Config built by owner holds its lists under identities of its own
Own(owner, field) == <<owner, field>>

\* the list objects after owner's Config received a list with these items
Alloc(h, owner, field, items) == (Own(owner, field) :> items) @@ h

\* Config() whose exclude and include factories hand out the module-level lists
\* themselves instead of copies of them
ConfigAliased(owner) ==
    [languages |-> ListRef(Own(owner, "languages")),
     exclude_patterns |-> ListRef(GlobalExclude),
     include_patterns |-> ListRef(GlobalInclude),
     max_docstring_length |-> IntValue(DEFAULT_MAX_DOCSTRING_LENGTH),
     output |-> StrValue(DEFAULT_OUTPUT)]

\* Config(): every field from its default factory
Config(owner) ==
    [languages |-> ListRef(Own(owner, "languages")),
     exclude_patterns |-> ListRef(Own(owner, "exclude_patterns")),
     include_patterns |-> ListRef(Own(owner, "include_patterns")),
     max_docstring_length |-> IntValue(DEFAULT_MAX_DOCSTRING_LENGTH),
     output |-> StrValue(DEFAULT_OUTPUT)]

\* the heap after Config(): the default factories copy the module-level lists
ConfigHeap(h, owner) ==
    Alloc(Alloc(Alloc(h, owner, "languages", DEFAULT_LANGUAGES),
                owner, "exclude_patterns", h[GlobalExclude]),
          owner, "include_patterns", h[GlobalInclude])

\* the recognized keys of the override document, all missing
EmptyMapping ==
    [languages |-> Absent, exclude |-> Absent, include |-> Absent,
     max_docstring_length |-> Absent, output |-> Absent]

\* data.get(key, default) as the Config field it becomes: a list of the
\* document becomes a list object of this Config
Get(v, owner, field, default) ==
    IF v.t = "absent" THEN default
    ELSE IF v.t = "list" THEN ListRef(Own(owner, field))
    ELSE v

\* the list objects after data.get(key, default) produced a list
GetHeap(h, v, owner, field, default_items) ==
    IF v.t = "absent" THEN Alloc(h, owner, field, default_items)
    ELSE IF v.t = "list" THEN Alloc(h, owner, field, v.items)
    ELSE h

\* data.get(key, default) where the default is no list
GetScalarHeap(h, v, owner, field) ==
    IF v.t = "list" THEN Alloc(h, owner, field, v.items) ELSE h

\* the Config(...) call of _load_yaml_config on the mapping data
YamlConfig(data, owner) ==
    [languages |-> Get(data.languages, owner, "languages", ListRef(Own(owner, "languages"))),
     exclude_patterns |->
         Get(data.exclude, owner, "exclude_patterns", ListRef(Own(owner, "exclude_patterns"))),
     include_patterns |->
         Get(data.include, owner, "include_patterns", ListRef(Own(owner, "include_patterns"))),
     max_docstring_length |->
         Get(data.max_docstring_length, owner, "max_docstring_length",
             IntValue(DEFAULT_MAX_DOCSTRING_LENGTH)),
     output |-> Get(data.output, owner, "output", StrValue(DEFAULT_OUTPUT))]

YamlHeap(h, data, owner) ==
    GetScalarHeap(
        GetScalarHeap(
            GetHeap(
                GetHeap(
                    GetHeap(h, data.languages, owner, "languages", YAML_DEFAULT_LANGUAGES),
                    data.exclude, owner, "exclude_patterns", h[GlobalExclude]),
                data.include, owner, "include_patterns", h[GlobalInclude]),
            data.max_docstring_length, owner, "max_docstring_length"),
        data.output, owner, "output")

\* yaml.safe_load(f) or {}: a null document and every falsy value give {}
LoadedData(rc) == IF rc.kind = "null" \/ ~rc.truthy THEN EmptyMapping ELSE rc.data

\* open or yaml.safe_load raised, or data has no get method
YamlRaises(rc) ==
    \/ rc.state \in {"unreadable", "malformed"}
    \/ rc.kind \in {"scalar", "sequence"} /\ rc.truthy

\* _load_yaml_config: the Config and the list objects after the call
_load_yaml_config(rc, h, owner) ==
    IF YamlRaises(rc)
    THEN [config |-> Config(owner), heap |-> ConfigHeap(h, owner)]
    ELSE [config |-> YamlConfig(LoadedData(rc), owner),
          heap |-> YamlHeap(h, LoadedData(rc), owner)]

\* the body of the loop over the lines of the ignore file
RECURSIVE gitignore_loop(_)
gitignore_loop(lines) ==
    IF lines = <<>> THEN <<>>
    ELSE LET stripped == Strip(Head(lines))
             skipped == \/ stripped = <<>>
                        \/ StartsWith(stripped, <<"#">>)
                        \/ StartsWith(stripped, <<"!">>)
             translated == _gitignore_to_glob(stripped)
         IN  (IF skipped \/ translated = <<>> THEN <<>> ELSE <<translated>>)
                 \o gitignore_loop(Tail(lines))

\* _load_gitignore: the patterns of the lines the file delivered before it ended
\* or before reading raised
_load_gitignore(f) ==
    IF ~f.exists THEN <<>> ELSE gitignore_loop(SubSeq(f.lines, 1, f.delivered))

\* the loop of load_config that appends the patterns missing from existing
RECURSIVE merge_loop(_, _, _)
merge_loop(exclude_patterns, gitignore_patterns, existing) ==
    IF gitignore_patterns = <<>> THEN exclude_patterns
    ELSE merge_loop(IF Head(gitignore_patterns) \in existing
                    THEN exclude_patterns
                    ELSE Append(exclude_patterns, Head(gitignore_patterns)),
                    Tail(gitignore_patterns), existing)

\* set(config.exclude_patterns) of a str: its characters
CharsOf(text) == {<<text[i]>> : i \in 1..Len(text)}

\* the merge raises: set() of a value that is not iterable, or append on a str
MergeRaises(cell, gitignore_patterns) ==
    \/ cell.t \in {"null", "int"}
    \/ /\ cell.t = "str"
       /\ \E i \in 1..Len(gitignore_patterns) : gitignore_patterns[i] \notin CharsOf(cell.text)

\* save_config: the mapping it dumps; a list is written with its items
Dump(cell, h) == IF cell.t = "list" THEN ListValue(h[cell.ref]) ELSE cell

\* save_config writing Config.to_dict() instead of its own mapping: the keys
\* exclude_patterns and include_patterns are not keys the loader reads
save_config_to_dict(cfg, h) ==
    [state |-> "parsed", kind |-> "mapping", truthy |-> TRUE,
     data |-> [EmptyMapping EXCEPT !.languages = Dump(cfg.languages, h)]]

save_config(cfg, h) ==
    [state |-> "parsed", kind |-> "mapping", truthy |-> TRUE,
     data |-> [languages |-> Dump(cfg.languages, h),
               exclude |-> Dump(cfg.exclude_patterns, h),
               include |-> Dump(cfg.include_patterns, h),
               max_docstring_length |-> Dump(cfg.max_docstring_length, h),
               output |-> Dump(cfg.output, h)]]

(***************************************************************************)
(* load_config, called by two callers on one root                            *)
(***************************************************************************)
Callers == {"A", "B"}

MaxIgnoreLines == 2

LogsPattern == <<"*", "*", "/", "l", "o", "g", "s", "/", "*", "*">>

\* the override file: absent, unreadable, not YAML, or a YAML document
RcFile(state, kind, truthy, data) ==
    [state |-> state, kind |-> kind, truthy |-> truthy, data |-> data]

NoRcFile == RcFile("absent", "null", FALSE, EmptyMapping)

Mappings ==
    {[languages |-> l, exclude |-> e, include |-> o[1],
      max_docstring_length |-> o[2], output |-> o[3]] :
        l \in {Absent, ListValue(<<Python>>)},
        e \in {Absent, ListValue(<<LogsPattern>>), NoneValue, StrValue(<<"a", "b">>)},
        o \in {<<Absent, Absent, Absent>>,
               <<ListValue(<<<<"*", ".", "p", "y">>>>), IntValue(80), StrValue(<<"o">>)>>}}

RcFiles ==
    {NoRcFile,
     RcFile("unreadable", "null", FALSE, EmptyMapping),
     RcFile("malformed", "null", FALSE, EmptyMapping),
     RcFile("parsed", "null", FALSE, EmptyMapping)}
    \cup {RcFile("parsed", k, b, EmptyMapping) : k \in {"scalar", "sequence"}, b \in BOOLEAN}
    \cup {RcFile("parsed", "mapping", m # EmptyMapping, m) : m \in Mappings \ {EmptyMapping}}
    \cup {RcFile("parsed", "mapping", b, EmptyMapping) : b \in BOOLEAN}

\* the ignore file: its lines, whether reading it raised, and how many lines
\* the iteration delivered before it ended or raised
IgnoreFile(exists, lines, failed, delivered) ==
    [exists |-> exists, lines |-> lines, failed |-> failed, delivered |-> delivered]

NoIgnoreFile == IgnoreFile(FALSE, <<>>, FALSE, 0)

IgnoreLines ==
    {<<"l", "o", "g", "s">>, <<"l", "o", "g", "s", "/">>, <<"b", "u", "i", "l", "d">>,
     <<"#", "c">>}

IgnoreFiles ==
    {NoIgnoreFile}
    \cup {IgnoreFile(TRUE, ls, FALSE, Len(ls)) : ls \in SeqsUpTo(IgnoreLines, MaxIgnoreLines)}
    \cup UNION {{IgnoreFile(TRUE, ls, TRUE, k) : k \in 0..Len(ls)} :
                    ls \in SeqsUpTo(IgnoreLines, MaxIgnoreLines)}

NoConfig ==
    [languages |-> Absent, exclude_patterns |-> Absent, include_patterns |-> Absent,
     max_docstring_length |-> Absent, output |-> Absent]

\* a call of load_config: where it is, its argument, its local config, the
\* exclude list before the merge, and what its caller then computed from it
NotCalled ==
    [pc |-> "start", respect_gitignore |-> TRUE, config |-> NoConfig,
     before |-> <<>>, excluded |-> <<>>, files |-> <<>>]

NoOther ==
    /\ NoRun
    /\ filepath = <<>>
    /\ pattern = <<>>
    /\ patterns = <<>>
    /\ result = <<>>
    /\ line = <<>>
    /\ tree = {}
    /\ config = [languages |-> <<>>, exclude_patterns |-> <<>>]
    /\ languages_arg = <<>>
    /\ extensions = <<>>
    /\ pending = {}
    /\ yielded = <<>>

otherVars ==
    <<filepath, pattern, patterns, result, line, tree, config, languages_arg, extensions,
      pending, yielded, runVars>>

InitLoad ==
    /\ rc_file \in RcFiles
    /\ ignore_file \in IgnoreFiles
    /\ heap = ModuleHeap
    /\ calls = [c \in Callers |-> NotCalled]
    /\ NoOther

\* load_config lines 96-100: the override file, or Config()
LoadOverride(c) ==
    /\ calls[c].pc = "start"
    /\ \E respect_gitignore \in BOOLEAN :
        LET loaded == IF rc_file.state # "absent"
                      THEN _load_yaml_config(rc_file, heap, c)
                      ELSE [config |-> Config(c), heap |-> ConfigHeap(heap, c)]
        IN  /\ heap' = loaded.heap
            /\ calls' = [calls EXCEPT ![c].pc = "constructed",
                                      ![c].respect_gitignore = respect_gitignore,
                                      ![c].config = loaded.config,
                                      ![c].before =
                                          IF loaded.config.exclude_patterns.t = "list"
                                          THEN loaded.heap[loaded.config.exclude_patterns.ref]
                                          ELSE <<>>]
    /\ UNCHANGED <<rc_file, ignore_file, otherVars>>

\* load_config lines 103-112, the merge returns
MergeReturns(c) ==
    /\ calls[c].pc = "constructed"
    /\ LET gitignore_patterns ==
               IF calls[c].respect_gitignore THEN _load_gitignore(ignore_file) ELSE <<>>
           cell == calls[c].config.exclude_patterns
       IN  /\ gitignore_patterns # <<>> => ~MergeRaises(cell, gitignore_patterns)
           /\ heap' = IF gitignore_patterns # <<>> /\ cell.t = "list"
                      THEN [heap EXCEPT ![cell.ref] =
                               merge_loop(heap[cell.ref], gitignore_patterns,
                                          {heap[cell.ref][i] : i \in 1..Len(heap[cell.ref])})]
                      ELSE heap
    /\ calls' = [calls EXCEPT ![c].pc = "returned"]
    /\ UNCHANGED <<rc_file, ignore_file, otherVars>>

\* load_config lines 107-110, the merge raises and the error reaches the caller
MergeRaised(c) ==
    /\ calls[c].pc = "constructed"
    /\ calls[c].respect_gitignore
    /\ _load_gitignore(ignore_file) # <<>>
    /\ MergeRaises(calls[c].config.exclude_patterns, _load_gitignore(ignore_file))
    /\ calls' = [calls EXCEPT ![c].pc = "raised"]
    /\ UNCHANGED <<rc_file, ignore_file, heap, otherVars>>

\* the pattern list of a Config as should_exclude receives it
PatternsOf(cell) == IF cell.t = "list" THEN <<heap[cell.ref]>> ELSE <<>>

LoadPaths ==
    {<<"l", "o", "g", "s", "/", "a", ".", "p", "y">>, <<"a", ".", "p", "y">>,
     <<"b", "u", "i", "l", "d", "/", "a", ".", "p", "y">>}

\* the caller passes the exclude list of its Config to should_exclude
ShouldExcludeCall(c) ==
    /\ calls[c].pc = "returned"
    /\ calls[c].excluded = <<>>
    /\ calls[c].config.exclude_patterns.t \in {"list", "null"}
    /\ \E path \in LoadPaths :
        calls' = [calls EXCEPT ![c].excluded =
                     <<should_exclude(path, PatternsOf(calls[c].config.exclude_patterns))>>]
    /\ UNCHANGED <<rc_file, ignore_file, heap, otherVars>>

\* the caller passes its Config to discover_files and drains the generator
DiscoverFilesCall(c) ==
    /\ calls[c].pc = "returned"
    /\ calls[c].files = <<>>
    /\ calls[c].config.languages.t = "list"
    /\ calls[c].config.exclude_patterns.t \in {"list", "null"}
    /\ LET exts == _get_extensions_for_languages(heap[calls[c].config.languages.ref])
       IN  calls' = [calls EXCEPT ![c].files =
                        <<{path \in LoadPaths :
                              /\ has_extension(path, exts)
                              /\ ~should_exclude(path,
                                      PatternsOf(calls[c].config.exclude_patterns))}>>]
    /\ UNCHANGED <<rc_file, ignore_file, heap, otherVars>>

\* one caller loads the configuration of the root
NextLoad == LoadOverride("A") \/ MergeReturns("A") \/ MergeRaised("A")

SpecLoad == InitLoad /\ [][NextLoad]_vars

\* two callers load the configuration of one root and use what they got
SharedRcFiles ==
    {NoRcFile,
     RcFile("unreadable", "null", FALSE, EmptyMapping),
     RcFile("parsed", "mapping", TRUE, [EmptyMapping EXCEPT !.output = StrValue(<<"o">>)]),
     RcFile("parsed", "mapping", TRUE,
            [EmptyMapping EXCEPT !.exclude = ListValue(<<LogsPattern>>)])}

SharedIgnoreFiles ==
    {NoIgnoreFile,
     IgnoreFile(TRUE, <<<<"l", "o", "g", "s">>>>, FALSE, 1),
     IgnoreFile(TRUE, <<<<"b", "u", "i", "l", "d">>, <<"t", "m", "p">>>>, FALSE, 2)}

InitShared ==
    /\ rc_file \in SharedRcFiles
    /\ ignore_file \in SharedIgnoreFiles
    /\ heap = ModuleHeap
    /\ calls = [c \in Callers |-> NotCalled]
    /\ NoOther

NextShared ==
    \E c \in Callers :
        \/ LoadOverride(c)
        \/ MergeReturns(c)
        \/ ShouldExcludeCall(c)
        \/ DiscoverFilesCall(c)

SpecShared == InitShared /\ [][NextShared]_vars

(***************************************************************************)
(* save_config followed by _load_yaml_config                                 *)
(***************************************************************************)
\* the Configs handed to save_config: empty and non-empty lists, 0 and the
\* empty str among the scalars
SavedLists(field) ==
    CASE field = "languages" -> {<<>>, <<Python>>, DEFAULT_LANGUAGES}
      [] field = "exclude_patterns" -> {<<>>, <<LogsPattern>>, DEFAULT_EXCLUDE_PATTERNS}
      [] field = "include_patterns" -> {<<>>, DEFAULT_INCLUDE_PATTERNS}

InitRoundTrip ==
    /\ rc_file = NoRcFile
    /\ ignore_file = NoIgnoreFile
    /\ \E l \in SavedLists("languages"), e \in SavedLists("exclude_patterns"),
          i \in SavedLists("include_patterns"),
          m \in {IntValue(0), IntValue(DEFAULT_MAX_DOCSTRING_LENGTH)},
          o \in {StrValue(<<>>), StrValue(DEFAULT_OUTPUT)} :
        /\ heap = Alloc(Alloc(Alloc(ModuleHeap, "A", "languages", l),
                              "A", "exclude_patterns", e),
                        "A", "include_patterns", i)
        /\ calls = [c \in Callers |->
                       IF c = "A"
                       THEN [NotCalled EXCEPT
                                !.pc = "returned",
                                !.config = [Config("A") EXCEPT !.max_docstring_length = m,
                                                               !.output = o]]
                       ELSE NotCalled]
    /\ NoOther

\* save_config(config, root) with the Config of caller c
SaveConfig(c) ==
    /\ calls[c].pc = "returned"
    /\ rc_file.state = "absent"
    /\ rc_file' = save_config(calls[c].config, heap)
    /\ UNCHANGED <<ignore_file, heap, calls, otherVars>>

\* _load_yaml_config(path) on the file save_config wrote
LoadYamlConfig(c) ==
    /\ calls[c].pc = "start"
    /\ rc_file.state # "absent"
    /\ heap' = _load_yaml_config(rc_file, heap, c).heap
    /\ calls' = [calls EXCEPT ![c].pc = "constructed",
                              ![c].config = _load_yaml_config(rc_file, heap, c).config]
    /\ UNCHANGED <<rc_file, ignore_file, otherVars>>

NextRoundTrip == SaveConfig("A") \/ LoadYamlConfig("B")

SpecRoundTrip == InitRoundTrip /\ [][NextRoundTrip]_vars

(***************************************************************************)
(* Properties of load_config                                                 *)
(***************************************************************************)
Members(list) == {list[i] : i \in 1..Len(list)}

Occurrences(list, x) == Cardinality({i \in 1..Len(list) : list[i] = x})

\* list followed by the patterns, each only if the list does not hold it yet
RECURSIVE AppendMissing(_, _)
AppendMissing(list, pats) ==
    IF pats = <<>> THEN list
    ELSE AppendMissing(IF Head(pats) \in Members(list) THEN list ELSE Append(list, Head(pats)),
                       Tail(pats))

\* the call of caller c returned a Config whose exclude field is a list
ReturnedList(c) ==
    /\ calls[c].pc = "returned"
    /\ calls[c].config.exclude_patterns.t = "list"

ExcludeList(c) == heap[calls[c].config.exclude_patterns.ref]

\* the call of caller c went through the merge of a non-empty pattern list
Merged(c) ==
    /\ ReturnedList(c)
    /\ calls[c].respect_gitignore
    /\ _load_gitignore(ignore_file) # <<>>

\* C12: after the merge the exclude list is the list before the merge followed
\* by the ignore-derived patterns in file order, each appended only if the list
\* does not hold it at that moment; so no ignore-derived pattern occurs in the
\* list more than once.
C12_MergeAppendsOnlyMissing ==
    Merged("A") =>
        /\ ExcludeList("A") = AppendMissing(calls["A"].before, _load_gitignore(ignore_file))
        /\ \A x \in Members(_load_gitignore(ignore_file)) : Occurrences(ExcludeList("A"), x) <= 1

\* the Config of caller c by value: every list field replaced by its items
ConfigValue(c) ==
    [languages |-> Dump(calls[c].config.languages, heap),
     exclude_patterns |-> Dump(calls[c].config.exclude_patterns, heap),
     include_patterns |-> Dump(calls[c].config.include_patterns, heap),
     max_docstring_length |-> Dump(calls[c].config.max_docstring_length, heap),
     output |-> Dump(calls[c].config.output, heap)]

\* C13: the Config the override-file loader builds from the document
\* save_config wrote for a Config C equals C in languages, exclude patterns,
\* include patterns, max_docstring_length and output.
C13_SaveLoadRoundTrip ==
    calls["B"].pc = "constructed" => ConfigValue("B") = ConfigValue("A")

C13_Witness ==
    /\ calls["B"].pc = "constructed"
    /\ ConfigValue("A").exclude_patterns = ListValue(<<LogsPattern>>)
    /\ ConfigValue("A").include_patterns = ListValue(<<>>)
    /\ ConfigValue("A").max_docstring_length = IntValue(0)
    /\ ConfigValue("A").output = StrValue(<<>>)

\* the built-in default Config by value: what Config() holds
BuiltIn ==
    [languages |-> Dump(Config("A").languages, ConfigHeap(ModuleHeap, "A")),
     exclude_patterns |-> Dump(Config("A").exclude_patterns, ConfigHeap(ModuleHeap, "A")),
     include_patterns |-> Dump(Config("A").include_patterns, ConfigHeap(ModuleHeap, "A")),
     max_docstring_length |-> Config("A").max_docstring_length,
     output |-> Config("A").output]

\* the override file was read and parsed to a key/value mapping
ReadableMapping == rc_file.state = "parsed" /\ rc_file.kind = "mapping"

\* C14: for an override file that is readable, every recognized key that is
\* missing from it leaves its Config field at the value of the built-in default
\* Config, the one used when there is no override file.
C14_MissingKeysFallBackToBuiltIn ==
    (calls["A"].pc = "constructed" /\ ReadableMapping) =>
        /\ rc_file.data.languages.t = "absent" =>
               ConfigValue("A").languages = BuiltIn.languages
        /\ rc_file.data.exclude.t = "absent" =>
               ConfigValue("A").exclude_patterns = BuiltIn.exclude_patterns
        /\ rc_file.data.include.t = "absent" =>
               ConfigValue("A").include_patterns = BuiltIn.include_patterns
        /\ rc_file.data.max_docstring_length.t = "absent" =>
               ConfigValue("A").max_docstring_length = BuiltIn.max_docstring_length
        /\ rc_file.data.output.t = "absent" =>
               ConfigValue("A").output = BuiltIn.output

\* what load_config returns for this root and this argument when there is no
\* override file: the built-in defaults, extended by the ignore file
AbsentFileConfig(respect_gitignore) ==
    [BuiltIn EXCEPT !.exclude_patterns =
        ListValue(IF respect_gitignore
                  THEN merge_loop(DEFAULT_EXCLUDE_PATTERNS, _load_gitignore(ignore_file),
                                  Members(DEFAULT_EXCLUDE_PATTERNS))
                  ELSE DEFAULT_EXCLUDE_PATTERNS)]

\* the override file exists but cannot be read, cannot be parsed, or parses to
\* something that is no key/value mapping
NoMapping ==
    \/ rc_file.state \in {"unreadable", "malformed"}
    \/ rc_file.state = "parsed" /\ rc_file.kind # "mapping"

\* C15: for an override file that cannot be read, cannot be parsed or is no
\* mapping, load_config returns the Config it returns for the same root
\* without an override file.
C15_BadOverrideFileIsAbsentFile ==
    (calls["A"].pc = "returned" /\ NoMapping) =>
        ConfigValue("A") = AbsentFileConfig(calls["A"].respect_gitignore)

\* C16: load_config never lets an error reach its caller, whatever the
\* override file and the ignore file hold.
C16_LoadConfigNeverRaises == calls["A"].pc # "raised"

\* C17: when the ignore file is missing or reading it fails, before the first
\* line or after some lines, no pattern is derived from it and load_config
\* leaves the exclude list as it was before the merge.
C17_IgnoreFileErrorLeavesExcludes ==
    (ReturnedList("A") /\ calls["A"].respect_gitignore
        /\ (~ignore_file.exists \/ ignore_file.failed)) =>
        /\ _load_gitignore(ignore_file) = <<>>
        /\ ExcludeList("A") = calls["A"].before

(***************************************************************************)
(* The language registry: get_language and _get_extensions_for_languages     *)
(***************************************************************************)
\* extension_to_lang of get_language, as <<suffix, language>> pairs
extension_to_lang ==
    {
      <<<<".", "p", "y">>, <<"p", "y", "t", "h", "o", "n">>>>,
      <<<<".", "p", "y", "i">>, <<"p", "y", "t", "h", "o", "n">>>>,
      <<<<".", "t", "s">>, <<"t", "y", "p", "e", "s", "c", "r", "i", "p", "t">>>>,
      <<<<".", "t", "s", "x">>, <<"t", "y", "p", "e", "s", "c", "r", "i", "p", "t">>>>,
      <<<<".", "j", "s">>, <<"j", "a", "v", "a", "s", "c", "r", "i", "p", "t">>>>,
      <<<<".", "j", "s", "x">>, <<"j", "a", "v", "a", "s", "c", "r", "i", "p", "t">>>>,
      <<<<".", "m", "d">>, <<"m", "a", "r", "k", "d", "o", "w", "n">>>>,
      <<<<".", "m", "a", "r", "k", "d", "o", "w", "n">>, <<"m", "a", "r", "k", "d", "o", "w", "n">>>>,
      <<<<".", "y", "a", "m", "l">>, <<"y", "a", "m", "l">>>>,
      <<<<".", "y", "m", "l">>, <<"y", "a", "m", "l">>>>,
      <<<<".", "k", "t">>, <<"k", "o", "t", "l", "i", "n">>>>,
      <<<<".", "k", "t", "s">>, <<"k", "o", "t", "l", "i", "n">>>>,
      <<<<".", "s", "w", "i", "f", "t">>, <<"s", "w", "i", "f", "t">>>>,
      <<<<".", "c">>, <<"c">>>>,
      <<<<".", "h">>, <<"c">>>>,
      <<<<".", "c", "p", "p">>, <<"c", "p", "p">>>>,
      <<<<".", "h", "p", "p">>, <<"c", "p", "p">>>>,
      <<<<".", "c", "c">>, <<"c", "p", "p">>>>,
      <<<<".", "h", "h">>, <<"c", "p", "p">>>>,
      <<<<".", "c", "x", "x">>, <<"c", "p", "p">>>>,
      <<<<".", "h", "x", "x">>, <<"c", "p", "p">>>>,
      <<<<".", "h", "t", "m", "l">>, <<"h", "t", "m", "l">>>>,
      <<<<".", "h", "t", "m">>, <<"h", "t", "m", "l">>>>,
      <<<<".", "c", "s", "s">>, <<"c", "s", "s">>>>,
      <<<<".", "p", "h", "p">>, <<"p", "h", "p">>>>,
      <<<<".", "p", "h", "t", "m", "l">>, <<"p", "h", "p">>>> }

\* get_language: None is <<>>, a language is <<language>>
get_language(path) ==
    LET suffix == Lower(Suffix(path))
        found == {e \in extension_to_lang : e[1] = suffix}
    IN  IF found = {} THEN <<>> ELSE <<(CHOOSE e \in found : TRUE)[2]>>

\* the parser the repository ships: its class attributes
DartParser ==
    [language |-> <<"d", "a", "r", "t">>, extensions |-> <<<<".", "d", "a", "r", "t">>>>]

ShippedParsers == {DartParser}

\* the language identifiers the registry knows
RegistryLanguages == {e[1] : e \in extension_map}

\* file names: one per suffix of the registry, and names whose suffix is in
\* upper case, belongs to the shipped parser, is unknown or is missing
RegistryPaths ==
    {<<"x">> \o e[1] : e \in extension_to_lang}
    \cup {<<"x", ".", "P", "Y">>, <<"x", ".", "H">>, <<"x", ".", "d", "a", "r", "t">>,
          <<"x", ".", "t", "x", "t">>, <<"x">>, <<".", "p", "y">>,
          <<"a", "/", "x", ".", "h">>}

LanguageLists ==
    {<<l>> : l \in RegistryLanguages
                 \cup {p.language : p \in ShippedParsers}
                 \cup {<<"P", "y", "t", "h", "o", "n">>}}

InitRegistry ==
    /\ NoLoad
    /\ NoRun
    /\ filepath \in RegistryPaths
    /\ languages_arg \in {<<ls>> : ls \in LanguageLists}
    /\ result = <<>>
    /\ pattern = <<>>
    /\ patterns = <<>>
    /\ line = <<>>
    /\ tree = {}
    /\ config = [languages |-> <<>>, exclude_patterns |-> <<>>]
    /\ extensions = <<>>
    /\ pending = {}
    /\ yielded = <<>>

\* the first call: result holds the values returned so far, in call order
GetExtensionsForLanguages ==
    /\ Len(result) = 0
    /\ result' = <<_get_extensions_for_languages(languages_arg[1])>>
    /\ UNCHANGED <<filepath, pattern, patterns, line, tree, config, languages_arg, extensions,
                   pending, yielded, loadVars, runVars>>

\* the second call
GetLanguage ==
    /\ Len(result) = 1
    /\ result' = Append(result, get_language(filepath))
    /\ UNCHANGED <<filepath, pattern, patterns, line, tree, config, languages_arg, extensions,
                   pending, yielded, loadVars, runVars>>

NextRegistry == GetExtensionsForLanguages \/ GetLanguage

SpecRegistry == InitRegistry /\ [][NextRegistry]_vars

\* the language asked for, and what the two calls returned
AskedLanguage == languages_arg[1][1]

ReturnedSuffixes == Members(result[1])

\* C18: for every language L of the registry and every suffix s, s is among
\* the suffixes returned for [L] exactly if get_language maps s to L; and no
\* suffix is listed under two languages.
C18_RegistryDirectionsAgree ==
    (Len(result) = 2 /\ AskedLanguage \in RegistryLanguages) =>
        /\ (Suffix(filepath) \in ReturnedSuffixes) <=> (result[2] = <<AskedLanguage>>)
        /\ \A e1, e2 \in extension_map :
               Members(e1[2]) \cap Members(e2[2]) # {} => e1 = e2

\* the languages of the default Config and of the shipped parsers
SupportedLanguages == Members(DEFAULT_LANGUAGES) \cup {p.language : p \in ShippedParsers}

\* C19: every language of the default Config list and every language with a
\* shipped parser (dart, suffix .dart) has a non-empty suffix set that holds the
\* parser's suffixes, and get_language maps each of its suffixes back to it.
C19_RegistryTotalOverSupported ==
    (Len(result) >= 1 /\ AskedLanguage \in SupportedLanguages) =>
        /\ result[1] # <<>>
        /\ \A p \in ShippedParsers :
               p.language = AskedLanguage => Members(p.extensions) \subseteq ReturnedSuffixes
        /\ (Len(result) = 2 /\ Suffix(filepath) \in ReturnedSuffixes) =>
               result[2] = <<AskedLanguage>>

\* the list objects the Config of caller c holds
ListsOf(c) ==
    {calls[c].config[f].ref : f \in {g \in ListFields : calls[c].config[g].t = "list"}}

\* the module-level lists hold the defaults, and so does a fresh Config()
DefaultsIntact ==
    /\ heap[GlobalExclude] = DEFAULT_EXCLUDE_PATTERNS
    /\ heap[GlobalInclude] = DEFAULT_INCLUDE_PATTERNS
    /\ ConfigHeap(heap, "fresh")[Own("fresh", "exclude_patterns")] = DEFAULT_EXCLUDE_PATTERNS
    /\ ConfigHeap(heap, "fresh")[Own("fresh", "include_patterns")] = DEFAULT_INCLUDE_PATTERNS
    /\ ConfigHeap(heap, "fresh")[Own("fresh", "languages")] = DEFAULT_LANGUAGES

\* no Config holds a module-level list, and two Configs hold no list in common
NoSharedList ==
    \A c1 \in Callers :
        /\ ListsOf(c1) \cap {GlobalExclude, GlobalInclude} = {}
        /\ \A c2 \in Callers \ {c1} : ListsOf(c1) \cap ListsOf(c2) = {}

\* a step of should_exclude or discover_files on a Config
UseStep == \E c \in Callers : ShouldExcludeCall(c) \/ DiscoverFilesCall(c)

\* C20: whatever the interleaving of load_config, discover_files and
\* should_exclude calls, the module-level default lists keep their items, a
\* fresh Config() has the original defaults, the Configs of different
\* load_config calls share no list, and discover_files and should_exclude
\* leave every Config and every list as they found them.
C20_NoMutableGlobalState ==
    /\ [](DefaultsIntact /\ NoSharedList)
    /\ [][UseStep => (heap' = heap /\ \A c \in Callers : calls'[c].config = calls[c].config)]_vars

C20_Witness ==
    \A c \in Callers :
        /\ ReturnedList(c)
        /\ Len(ExcludeList(c)) > Len(calls[c].before)
        /\ calls[c].excluded # <<>>
        /\ calls[c].files # <<>>

(***************************************************************************)
(* _match_parts executed call by call                                        *)
(***************************************************************************)
\* the depth of Python frames at which the interpreter raises RecursionError
\* (sys.getrecursionlimit() of the interpreter that runs the package)
RecursionLimit == 1000

\* frames already on the interpreter's stack when _match_parts is first
\* called: from module level, or below discover_files, should_exclude and
\* _match_glob_pattern
CallerDepths == {1, 4}

\* an activation of _match_parts: its two arguments are the arguments of the
\* first call without their first path_from and pattern_from items (every
\* argument of a recursive call is a [1:] slice), and pc is the call it waits for
Frame(path_from, pattern_from, pc) ==
    [path_from |-> path_from, pattern_from |-> pattern_from, pc |-> pc]

\* a path as deep as the recursion limit: a/a/a/.../a
DeepPath == [k \in 1..RecursionLimit |-> <<"a">>]

MatcherArguments ==
    {<<p, q>> : p \in SeqsUpTo(PathNames, MaxPathParts),
                q \in SeqsUpTo(PatternNames, MaxPatternParts)}
    \cup {<<DeepPath, q>> : q \in {<<DoubleStar>>, <<DoubleStar, <<"b">>>>}}

InitMatchParts ==
    /\ \E a \in MatcherArguments, d \in CallerDepths :
        matcher = [path_parts |-> a[1], pattern_parts |-> a[2], callers |-> d,
                   frames |-> <<Frame(0, 0, "entry")>>,
                   ret |-> FALSE, value |-> <<>>, error |-> FALSE]
    /\ parser = <<>>
    /\ twin = <<>>
    /\ NoLoad
    /\ filepath = <<>>
    /\ pattern = <<>>
    /\ patterns = <<>>
    /\ result = <<>>
    /\ line = <<>>
    /\ tree = {}
    /\ config = [languages |-> <<>>, exclude_patterns |-> <<>>]
    /\ languages_arg = <<>>
    /\ extensions = <<>>
    /\ pending = {}
    /\ yielded = <<>>

Running == matcher.frames # <<>>

Top == matcher.frames[Len(matcher.frames)]

\* len(path_parts) and len(pattern_parts) of an activation
PathLeft(f) == Len(matcher.path_parts) - f.path_from
PatternLeft(f) == Len(matcher.pattern_parts) - f.pattern_from

\* path_parts[0] and pattern_parts[0] of an activation
PathHead(f) == matcher.path_parts[f.path_from + 1]
PatternHead(f) == matcher.pattern_parts[f.pattern_from + 1]

\* the interpreter has room for one more frame
CanCall == matcher.callers + Len(matcher.frames) + 1 <= RecursionLimit

\* return b from the top activation: to its caller, or out of the first call
Return(b) ==
    matcher' = [matcher EXCEPT
                   !.frames = SubSeq(matcher.frames, 1, Len(matcher.frames) - 1),
                   !.ret = b,
                   !.value = IF Len(matcher.frames) = 1 THEN <<b>> ELSE matcher.value]

\* call _match_parts on the slices and wait for it at pc
Call(path_from, pattern_from, pc) ==
    matcher' = [matcher EXCEPT
                   !.frames = Append([matcher.frames EXCEPT ![Len(matcher.frames)].pc = pc],
                                     Frame(path_from, pattern_from, "entry"))]

Unchanged == UNCHANGED <<filepath, pattern, patterns, result, line, tree, config,
                         languages_arg, extensions, pending, yielded, loadVars, parser, twin>>

\* lines 114-115: no pattern part left
ReturnNoPattern ==
    /\ Running /\ Top.pc = "entry"
    /\ PatternLeft(Top) = 0
    /\ Return(PathLeft(Top) = 0)
    /\ Unchanged

\* lines 117-119: no path part left
ReturnNoPath ==
    /\ Running /\ Top.pc = "entry"
    /\ PatternLeft(Top) > 0 /\ PathLeft(Top) = 0
    /\ Return(\A k \in (Top.pattern_from + 1)..Len(matcher.pattern_parts) :
                  matcher.pattern_parts[k] = DoubleStar)
    /\ Unchanged

\* line 126: _match_parts(path_parts, pattern_parts[1:])
CallZero ==
    /\ Running /\ Top.pc = "entry"
    /\ PatternLeft(Top) > 0 /\ PathLeft(Top) > 0
    /\ PatternHead(Top) = DoubleStar
    /\ CanCall
    /\ Call(Top.path_from, Top.pattern_from + 1, "zero")
    /\ Unchanged

\* line 127: the call of line 126 returned True
ReturnAfterZero ==
    /\ Running /\ Top.pc = "zero"
    /\ matcher.ret
    /\ Return(TRUE)
    /\ Unchanged

\* line 129: _match_parts(path_parts[1:], pattern_parts)
CallOne ==
    /\ Running /\ Top.pc = "zero"
    /\ ~matcher.ret
    /\ CanCall
    /\ Call(Top.path_from + 1, Top.pattern_from, "one")
    /\ Unchanged

\* lines 129-131: True if the call of line 129 returned True, else False
ReturnAfterOne ==
    /\ Running /\ Top.pc = "one"
    /\ Return(matcher.ret)
    /\ Unchanged

\* lines 134-135: the part matches, _match_parts(path_parts[1:], pattern_parts[1:])
CallTail ==
    /\ Running /\ Top.pc = "entry"
    /\ PatternLeft(Top) > 0 /\ PathLeft(Top) > 0
    /\ PatternHead(Top) # DoubleStar
    /\ fnmatch(PathHead(Top), PatternHead(Top))
    /\ CanCall
    /\ Call(Top.path_from + 1, Top.pattern_from + 1, "tail")
    /\ Unchanged

\* line 135: return what the call returned
ReturnAfterTail ==
    /\ Running /\ Top.pc = "tail"
    /\ Return(matcher.ret)
    /\ Unchanged

\* line 136: the part does not match
ReturnNoMatch ==
    /\ Running /\ Top.pc = "entry"
    /\ PatternLeft(Top) > 0 /\ PathLeft(Top) > 0
    /\ PatternHead(Top) # DoubleStar
    /\ ~fnmatch(PathHead(Top), PatternHead(Top))
    /\ Return(FALSE)
    /\ Unchanged

\* a call of line 126, 129 or 135 at the recursion limit: RecursionError, which
\* no activation catches, unwinds them all and reaches the caller
RaiseRecursionError ==
    /\ Running
    /\ PatternLeft(Top) > 0 /\ PathLeft(Top) > 0
    /\ \/ Top.pc = "entry"
          /\ (PatternHead(Top) # DoubleStar => fnmatch(PathHead(Top), PatternHead(Top)))
       \/ Top.pc = "zero" /\ ~matcher.ret
    /\ ~CanCall
    /\ matcher' = [matcher EXCEPT !.frames = <<>>, !.error = TRUE]
    /\ Unchanged

NextMatchParts ==
    \/ ReturnNoPattern
    \/ ReturnNoPath
    \/ CallZero
    \/ ReturnAfterZero
    \/ CallOne
    \/ ReturnAfterOne
    \/ CallTail
    \/ ReturnAfterTail
    \/ ReturnNoMatch
    \/ RaiseRecursionError

SpecMatchParts == InitMatchParts /\ [][NextMatchParts]_vars

\* the interpreter runs the call to its end
SpecMatchPartsFair == SpecMatchParts /\ WF_vars(NextMatchParts)

\* a step that calls _match_parts again
Calls == Len(matcher'.frames) = Len(matcher.frames) + 1

\* len(path_parts) + len(pattern_parts) of the caller and of the callee
CallerMeasure == PathLeft(Top) + PatternLeft(Top)
CalleeMeasure ==
    LET f == matcher'.frames[Len(matcher'.frames)]
    IN  (Len(matcher.path_parts) - f.path_from) + (Len(matcher.pattern_parts) - f.pattern_from)

\* C21: for every path part list and pattern part list the recursion of
\* _match_parts ends with a boolean and never fails, and every recursive call
\* has a smaller sum of the two list lengths than its caller.
C21_MatcherTotal ==
    /\ [](~matcher.error)
    /\ [][Calls => CalleeMeasure < CallerMeasure]_vars
    /\ <>(matcher.frames = <<>> /\ Len(matcher.value) = 1)

(***************************************************************************)
(* dart_parser.py: _extract_class_members, the scan of a body                *)
(***************************************************************************)
MaxChildren == 4

\* a child node of the body.  doc is what _extract_doc_comment returns for a
\* documentation_comment (<<>> for None); emits says whether the extractor of
\* the node returns a Symbol: a declaration with a constructor_signature that
\* holds an identifier, a method_signature with an inner signature
Node(type, doc, emits) == [type |-> type, doc |-> doc, emits |-> emits]

\* the text of the documentation comments, one per position in the body, so
\* that a docstring names the comment it was taken from
DocTexts == <<"first", "second", "third", "fourth", "fifth", "sixth">>

\* the child nodes a position k of a body can hold; "other" is any node type
\* the scan has no branch for (annotation, comment, `;`, `{`, `}`, ERROR)
NodesAt(k) ==
    {Node("documentation_comment", <<DocTexts[k]>>, FALSE),
     Node("documentation_comment", <<>>, FALSE),
     Node("declaration", <<>>, TRUE),
     Node("declaration", <<>>, FALSE),
     Node("method_signature", <<>>, TRUE),
     Node("method_signature", <<>>, FALSE),
     Node("function_body", <<>>, FALSE),
     Node("other", <<>>, FALSE)}

Bodies ==
    UNION {{b \in [1..n -> UNION {NodesAt(k) : k \in 1..n}] : \A k \in 1..n : b[k] \in NodesAt(k)} :
              n \in 0..MaxChildren}

InitScan ==
    /\ \E b \in Bodies :
        parser = [children |-> b, next |-> 1, prev_doc |-> <<>>, prev_method_sig |-> <<>>,
                  members |-> <<>>, returned |-> FALSE]
    /\ matcher = <<>>
    /\ twin = <<>>
    /\ NoLoad
    /\ filepath = <<>>
    /\ pattern = <<>>
    /\ patterns = <<>>
    /\ result = <<>>
    /\ line = <<>>
    /\ tree = {}
    /\ config = [languages |-> <<>>, exclude_patterns |-> <<>>]
    /\ languages_arg = <<>>
    /\ extensions = <<>>
    /\ pending = {}
    /\ yielded = <<>>

\* the loop has a child left; child is the loop variable
InLoop == ~parser.returned /\ parser.next <= Len(parser.children)

child == parser.children[parser.next]

\* a Symbol of the body: the node it was extracted from and its docstring
Member(node, docstring) == [node |-> node, docstring |-> docstring]

ScanUnchanged == UNCHANGED <<filepath, pattern, patterns, result, line, tree, config,
                             languages_arg, extensions, pending, yielded, loadVars,
                             matcher, twin>>

\* lines 259-260
ScanDocumentationComment ==
    /\ InLoop
    /\ child.type = "documentation_comment"
    /\ parser' = [parser EXCEPT !.next = @ + 1, !.prev_doc = child.doc]
    /\ ScanUnchanged

\* lines 262-271
ScanDeclaration ==
    /\ InLoop
    /\ child.type = "declaration"
    /\ parser' = [parser EXCEPT
                     !.next = @ + 1,
                     !.members = IF child.emits
                                 THEN Append(@, Member(parser.next, parser.prev_doc))
                                 ELSE @,
                     !.prev_doc = <<>>]
    /\ ScanUnchanged

\* lines 273-275
ScanMethodSignature ==
    /\ InLoop
    /\ child.type = "method_signature"
    /\ parser' = [parser EXCEPT !.next = @ + 1, !.prev_method_sig = <<parser.next>>]
    /\ ScanUnchanged

\* lines 277-284
ScanFunctionBody ==
    /\ InLoop
    /\ child.type = "function_body"
    /\ parser.prev_method_sig # <<>>
    /\ parser' = [parser EXCEPT
                     !.next = @ + 1,
                     !.members = IF parser.children[parser.prev_method_sig[1]].emits
                                 THEN Append(@, Member(parser.prev_method_sig[1], parser.prev_doc))
                                 ELSE @,
                     !.prev_method_sig = <<>>,
                     !.prev_doc = <<>>]
    /\ ScanUnchanged

\* no branch of the if/elif chain applies
ScanOther ==
    /\ InLoop
    /\ \/ child.type = "other"
       \/ child.type = "function_body" /\ parser.prev_method_sig = <<>>
    /\ parser' = [parser EXCEPT !.next = @ + 1]
    /\ ScanUnchanged

\* line 286
ScanReturn ==
    /\ ~parser.returned
    /\ parser.next > Len(parser.children)
    /\ parser' = [parser EXCEPT !.returned = TRUE]
    /\ ScanUnchanged

NextScan ==
    \/ ScanDocumentationComment
    \/ ScanDeclaration
    \/ ScanMethodSignature
    \/ ScanFunctionBody
    \/ ScanOther
    \/ ScanReturn

SpecScan == InitScan /\ [][NextScan]_vars

\* the positions of the documentation comments, and of the declarations and
\* method signatures
IsComment(k) == parser.children[k].type = "documentation_comment"
IsMemberNode(k) == parser.children[k].type \in {"declaration", "method_signature"}

\* the comment a docstring was taken from
CommentOf(docstring) ==
    CHOOSE k \in 1..Len(parser.children) : IsComment(k) /\ parser.children[k].doc = docstring

\* the emitted members whose docstring is the text of comment k
AttachedTo(k) ==
    {i \in 1..Len(parser.members) : parser.members[i].docstring = parser.children[k].doc}

\* node j is the first declaration or method signature after position k
FirstMemberAfter(k, j) ==
    /\ k < j
    /\ IsMemberNode(j)
    /\ \A i \in (k + 1)..(j - 1) : ~IsMemberNode(i)

\* C22: in the scan of a body, whatever its child nodes: a documentation
\* comment is the docstring of at most one emitted member, and only of the
\* first declaration or method signature that follows it; and a member with no
\* documentation comment between the previous declaration or method signature
\* and itself is emitted with no docstring.
C22_DocCommentAttachment ==
    /\ \A k \in 1..Len(parser.children) :
           (IsComment(k) /\ parser.children[k].doc # <<>>) => Cardinality(AttachedTo(k)) <= 1
    /\ \A i \in 1..Len(parser.members) :
           parser.members[i].docstring # <<>> =>
               FirstMemberAfter(CommentOf(parser.members[i].docstring), parser.members[i].node)

(***************************************************************************)
(* discover_files called twice on one root                                   *)
(***************************************************************************)
\* lines 38 and 50 together with a test of config.include_patterns: a file is
\* kept only if one of the include patterns matches it as well
passes_filters_included(path, cfg, exts) ==
    /\ has_extension(path, exts)
    /\ ~should_exclude(path, <<cfg.exclude_patterns>>)
    /\ \E i \in 1..Len(cfg.include_patterns) :
           _match_glob_pattern(path, cfg.include_patterns[i])

\* lines 38 and 50: neither `continue` is taken for the file
passes_filters(path, cfg, exts) ==
    /\ has_extension(path, exts)
    /\ ~should_exclude(path, <<cfg.exclude_patterns>>)

\* the entries one root can hold
TwinEntries ==
    {File(<<"a", "/", "a", "p", "p", ".", "p", "y">>),
     File(<<"a", "/", "b", "u", "i", "l", "d", "/", "o", "u", "t", ".", "p", "y">>),
     File(<<"b", ".", "j", "s">>),
     Dir(<<"a">>)}

\* root.rglob("*") of one root: some of the entries in the order of the file
\* system, the same for every walk of that root
RglobOrders ==
    {o \in SeqsUpTo(TwinEntries, MaxFiles) : \A i, j \in 1..Len(o) : i # j => o[i] # o[j]}

\* Config objects by value: the two fields discovery names, and the rest
TwinConfigs ==
    {[languages |-> l, exclude_patterns |-> e, include_patterns |-> r[1],
      max_docstring_length |-> r[2], output |-> r[3]] :
        l \in {<<Python>>, DEFAULT_LANGUAGES},
        e \in {DEFAULT_EXCLUDE_PATTERNS, <<>>},
        r \in {<<DEFAULT_INCLUDE_PATTERNS, DEFAULT_MAX_DOCSTRING_LENGTH, DEFAULT_OUTPUT>>,
               <<<<>>, 80, <<"o">>>>,
               <<<<<<"*", "*", "/", "*", ".", "j", "s">>>>, DEFAULT_MAX_DOCSTRING_LENGTH,
                 <<"o">>>>}}

Walks == {1, 2}

\* a call discover_files(root, config): its config, the local extensions, the
\* number of entries rglob has produced, and the paths yielded so far
Walk(cfg) ==
    [config |-> cfg,
     extensions |-> _get_extensions_for_languages(effective_languages(<<>>, cfg)),
     produced |-> 0, yielded |-> <<>>]

InitTwin ==
    /\ \E o \in RglobOrders, c1 \in TwinConfigs, c2 \in TwinConfigs :
        /\ c1.languages = c2.languages
        /\ c1.exclude_patterns = c2.exclude_patterns
        /\ twin = [order |-> o, walks |-> <<Walk(c1), Walk(c2)>>]
    /\ matcher = <<>>
    /\ parser = <<>>
    /\ NoLoad
    /\ filepath = <<>>
    /\ pattern = <<>>
    /\ patterns = <<>>
    /\ result = <<>>
    /\ line = <<>>
    /\ tree = {}
    /\ config = [languages |-> <<>>, exclude_patterns |-> <<>>]
    /\ languages_arg = <<>>
    /\ extensions = <<>>
    /\ pending = {}
    /\ yielded = <<>>

\* the entry the loop of walk w turns to next
TwinEntry(w) == twin.order[twin.walks[w].produced + 1]

TwinUnchanged == UNCHANGED <<filepath, pattern, patterns, result, line, tree, config,
                             languages_arg, extensions, pending, yielded, loadVars,
                             matcher, parser>>

\* lines 34-35, 38-39, 50-51: one of the three `continue`
TwinContinue(w) ==
    /\ twin.walks[w].produced < Len(twin.order)
    /\ \/ ~TwinEntry(w).is_file
       \/ ~passes_filters(TwinEntry(w).path, twin.walks[w].config, twin.walks[w].extensions)
    /\ twin' = [twin EXCEPT !.walks[w].produced = @ + 1]
    /\ TwinUnchanged

\* line 53
TwinYield(w) ==
    /\ twin.walks[w].produced < Len(twin.order)
    /\ TwinEntry(w).is_file
    /\ passes_filters(TwinEntry(w).path, twin.walks[w].config, twin.walks[w].extensions)
    /\ twin' = [twin EXCEPT !.walks[w].produced = @ + 1,
                            !.walks[w].yielded = Append(@, TwinEntry(w).path)]
    /\ TwinUnchanged

NextTwin == \E w \in Walks : TwinContinue(w) \/ TwinYield(w)

SpecTwin == InitTwin /\ [][NextTwin]_vars

\* C23: two discover_files walks of one root whose Configs agree on languages
\* and exclude_patterns, whatever their include_patterns, max_docstring_length
\* and output, have yielded the same sequence of files whenever they have
\* been through the same entries.
C23_DiscoveryIgnoresIncludePatterns ==
    (twin.walks[1].produced = twin.walks[2].produced) =>
        twin.walks[1].yielded = twin.walks[2].yielded

\* both walks are over, yielded a/app.py, and one Config includes nothing
C23_Witness ==
    /\ twin.walks[1].produced = Len(twin.order)
    /\ twin.walks[2].produced = Len(twin.order)
    /\ twin.walks[1].config.include_patterns = <<>>
    /\ twin.walks[2].config.include_patterns = DEFAULT_INCLUDE_PATTERNS
    /\ twin.walks[1].config.output # twin.walks[2].config.output
    /\ twin.walks[1].yielded = <<<<"a", "/", "a", "p", "p", ".", "p", "y">>>>
    /\ Len(twin.order) >= 2

====
